---- MODULE Spec2Model ----
(***************************************************************************)
(* A model of metaweb.py: the Session class (read, results, search,        *)
(* download, blurb, thumbnail and their helpers) and the ServiceError      *)
(* exceptions.                                                             *)
(*                                                                         *)
(* Representation.  A Python str is a Text: a sequence of tokens, each a   *)
(* record.  [c |-> s] is a run of ordinary characters; the characters the  *)
(* code looks for ('?', '*') are tokens of their own.  simplejson is an    *)
(* external library: a JSON document inside a text is one token            *)
(* [doc |-> v] carrying the value it denotes, and urllib's quoting of it   *)
(* is the token [quoted |-> v].  A Python dict is a function from its keys *)
(* (TLA+ strings) to its values.                                           *)
(***************************************************************************)
EXTENDS Integers, Sequences, FiniteSets, TLC

\* ------------------------------------------------------------- bounds
MaxQueries == 2     \* read(): at most this many queries in one call
MaxPages == 2       \* results(): at most this many page fetches per generator

\* ---------------------------------------------------------- constants
S(s) == << [c |-> s] >>

READ == S("/api/service/mqlread")
SEARCH == S("/api/service/search")
DOWNLOAD == S("/api/trans/raw")
BLURB == S("/api/trans/blurb")
THUMB == S("/api/trans/image_thumb")
OK == S("/api/status/ok")

\* The names bound at module level (lines 38-51): what a global name lookup
\* inside a method can find.
ModuleGlobals ==
  [READ |-> READ, SEARCH |-> SEARCH, DOWNLOAD |-> DOWNLOAD, BLURB |-> BLURB,
   THUMB |-> THUMB, LOGIN |-> S("/api/account/login"),
   WRITE |-> S("/api/service/mqlwrite"), UPLOAD |-> S("/api/service/upload"),
   TOUCH |-> S("/api/service/touch"), OK |-> OK]

\* ------------------------------------------------------ Python helpers
EmptyDict == [k \in {} |-> <<>>]

\* dict.update: d with the items of e added, e's values winning.
Update(d, e) ==
  [k \in (DOMAIN d) \cup (DOMAIN e) |-> IF k \in DOMAIN e THEN e[k] ELSE d[k]]

\* The order in which a dict's keys are iterated (fixed, as in one run of
\* the interpreter).
KeyOrder ==
  << "queries", "query", "prefix", "cursor", "lang", "as_of_time", "escape",
     "uniqueness_failure", "domain", "type", "type_strict", "limit", "start",
     "mql_output", "maxlength", "break_paragraphs", "maxwidth", "maxheight",
     "foo" >>

\* urllib.quote_plus on a text: reserved characters and JSON documents are
\* percent-encoded.
QuoteTok(t) ==
  IF "doc" \in DOMAIN t THEN [quoted |-> t.doc]
  ELSE IF t.c = "?" THEN [c |-> "%3F"]
  ELSE IF t.c = "*" THEN [c |-> "%2A"]
  ELSE IF t.c = "&" THEN [c |-> "%26"]
  ELSE IF t.c = "=" THEN [c |-> "%3D"]
  ELSE t

Quote(text) == [i \in 1..Len(text) |-> QuoteTok(text[i])]

\* urllib.urlencode(d): k=v pairs joined by '&', keys and values quoted.
RECURSIVE UrlEncodeFrom(_, _, _)
UrlEncodeFrom(d, i, first) ==
  IF i > Len(KeyOrder) THEN << >>
  ELSE IF KeyOrder[i] \in DOMAIN d
       THEN (IF first THEN << >> ELSE S("&"))
              \o S(KeyOrder[i]) \o S("=") \o Quote(d[KeyOrder[i]])
              \o UrlEncodeFrom(d, i + 1, FALSE)
       ELSE UrlEncodeFrom(d, i + 1, first)

UrlEncode(d) == UrlEncodeFrom(d, 1, TRUE)

\* str.partition(sep)[0]: the text before the first sep, the whole text if
\* there is none.
RECURSIVE PartitionHead(_, _)
PartitionHead(text, sep) ==
  IF text = << >> THEN << >>
  ELSE IF Head(text) = [c |-> sep] THEN << >>
  ELSE << Head(text) >> \o PartitionHead(Tail(text), sep)

\* str.endswith(ch)
EndsWith(text, ch) == Len(text) > 0 /\ text[Len(text)] = [c |-> ch]

\* 'q%d' % i
SlotKey(i) == "q" \o ToString(i)

\* ---------------------------------------------------------------- state
VARIABLES
  client,    \* how the calling program uses the session in this run: one
             \* family of operations, or all of them from one thread or
             \* from two
  host,      \* Session.host
  options,   \* Session.options: the session's option defaults
  lasturl,   \* Session.lasturl: the URL of the latest _http call
  call,      \* the latest call: its arguments, its requests, its outcome
  gen,       \* the results() generator object
  gen2       \* a second results() generator object of the same session

vars == << client, host, options, lasturl, call, gen, gen2 >>

\* ------------------------------------------------------------ exceptions
\* ServiceError.__init__
ServiceError(url, details) ==
  [type |-> "ServiceError", url |-> url, details |-> details]

\* InternalServiceError.__init__: a ServiceError with a fake response object
\* whose only message carries the unparseable body.
InternalServiceError(url, body) ==
  [type |-> "InternalServiceError", url |-> url,
   details |-> [code |-> S("Internal service error"),
                messages |-> << [code |-> S("Unparseable response"),
                                 message |-> body] >>]]

\* The url printed whole.
StrPrefixWholeURL(url) == url

\* The prefix ServiceError.__str__ prints: the url without its parameters.
StrPrefix(url) == PartitionHead(url, "?")

\* ServiceError.__str__
Str(e) ==
  LET prefix == StrPrefix(e.url)
      msg == e.details.messages[1]
  IN prefix \o S(": ") \o msg.code \o S(": ") \o msg.message

\* Exceptions the interpreter itself raises.
PyError(type) == [type |-> type]

\* How a call ends: it returns a value or raises an exception.
Returned(v) == [status |-> "return", value |-> v]
Raised(e) == [status |-> "raise", exc |-> e]

\* -------------------------------------------------------- Session helpers
\* Session defaults of every name, whether asked for or not.
GetOptsAllDefaults(keys, local_options) == Update(options, local_options)

\* Session defaults winning over the call-time options.
GetOptsDefaultsWin(keys, local_options) ==
  Update(local_options, [k \in keys \cap DOMAIN options |-> options[k]])

\* Session._getopts: the session defaults of the given keys, then the
\* call-time options over them.
GetOpts(keys, local_options) ==
  LET o == [k \in keys \cap DOMAIN options |-> options[k]]
  IN Update(o, local_options)

\* Session._dumpjson (pretty = False)
DumpJson(o) == << [doc |-> o] >>

\* The url never stored.
HttpKeepsLastURL(url) == lasturl

\* Session._http, line 304: the value of self.lasturl once the request for url
\* is sent.
Http(url) == url

\* Session._parsejson, with self.lasturl = lu: the value the text denotes, or
\* InternalServiceError when the text is no JSON document.
ParseJson(lu, s) ==
  IF Len(s) = 1 /\ "doc" \in DOMAIN s[1]
  THEN Returned(s[1].doc)
  ELSE Raised(InternalServiceError(lu, s))

\* Session._check, with self.lasturl = lu
Check(lu, response) ==
  IF response.code # OK
  THEN Raised(ServiceError(lu, response))
  ELSE Returned(response)

\* Session._fetch, on the response resp of its request for url: the body is
\* parsed, and _parsejson reads self.lasturl as it is by then.
Fetch(url, resp) == ParseJson(lasturl, resp.body)

\* _check(_fetch(url))
CheckFetch(url, resp) ==
  LET parsed == Fetch(url, resp)
  IN IF parsed.status = "raise" THEN parsed ELSE Check(lasturl, parsed.value)

\* A body that is a JSON document.
IsJson(body) == Len(body) = 1 /\ "doc" \in DOMAIN body[1]

\* ---------------------------------------------------------------- server
\* What the Metaweb server can answer.  Its JSON envelopes are well formed:
\* an envelope with the success code carries 'result' (and 'cursor' when one
\* was asked for), any other envelope carries a non-empty 'messages', and an
\* outer envelope has one inner envelope per slot asked.  Every response has
\* a content-type header.
ERROR == S("/api/status/error")

Message(code, text) == [code |-> S(code), message |-> S(text)]

ErrorEnvelopes ==
  { [code |-> ERROR,
     messages |-> << Message("/api/status/error/notfound", "not found") >>],
    [code |-> S("/api/status/error/mql"),
     messages |-> << Message("/api/status/error/mql/parse", "bad query"),
                     Message("/api/status/error/mql/type", "bad type") >>] }

\* Bodies that are no JSON document.
GarbageBodies == { << >>, S("<html>502 Bad Gateway</html>") }

Headers(ctype) == [k \in {"content-type"} |-> S(ctype)]

Response(status, ctype, body) ==
  [status |-> status, headers |-> Headers(ctype), body |-> body]

\* Answers that carry no envelope of the service asked: a failure envelope or
\* an unparseable body, under an HTTP error status.
FailureResponses ==
  { Response(400, "application/json", DumpJson(e)) : e \in ErrorEnvelopes }
    \cup { Response(502, "text/html", b) : b \in GarbageBodies }

\* A JSON value the client only passes on.
J(v) == [json |-> v]

\* A Python list.
PyList(seq) == [list |-> seq]

\* ------------------------------------------------------------------ read
\* The i-th query of a call: query bodies are JSON values the client only
\* passes on.
Query(i) == J("query" \o ToString(i))

QuerySeqs == { [i \in 1..n |-> Query(i)] : n \in 0..MaxQueries }

InnerEnvelopes ==
  { [code |-> OK, result |-> J(r)] : r \in { "r1", "r2" } }
    \cup { [code |-> S("/api/status/error/mql"),
            messages |-> << Message("/api/status/error/mql/parse", "bad query") >>] }

\* The outer response envelopes for n queries: the success code and one inner
\* envelope per slot.  (simplejson.loads gives a dict: the order of the keys
\* in the body is lost in parsing.)
OuterEnvelopes(n) ==
  { [k \in {"code"} \cup { SlotKey(i) : i \in 0..(n - 1) } |->
       IF k = "code" THEN OK ELSE f[k]] :
    f \in [{ SlotKey(i) : i \in 0..(n - 1) } -> InnerEnvelopes] }

ReadResponses(n) ==
  { Response(200, "application/json", DumpJson(o)) : o \in OuterEnvelopes(n) }
    \cup FailureResponses

\* Call-time options of read() and results()
ReadLocalOptions ==
  { [k \in ks |-> S("call")] : ks \in SUBSET { "lang", "cursor" } }

ReadKeys == { "lang", "as_of_time", "escape", "uniqueness_failure" }

\* read(), lines 123-129: the outer query envelope
ReadEnvelope(queries, opts) ==
  [k \in { SlotKey(i) : i \in 0..(Len(queries) - 1) } |->
     LET i == CHOOSE j \in 0..(Len(queries) - 1) : SlotKey(j) = k
     IN Update([query |-> queries[i + 1]], opts)]

\* read(), lines 132-136: the request URL
ReadURL(queries, local) ==
  LET opts == GetOpts(ReadKeys, local)
      json == DumpJson(ReadEnvelope(queries, opts))
      urlparam == UrlEncode([queries |-> json])
  IN S("http://") \o host \o READ \o S("?") \o urlparam

\* The loop with the check of the inner envelopes left out: a failed slot
\* gives a null result.
RECURSIVE ReadLoopUnchecked(_, _, _, _, _)
ReadLoopUnchecked(lu, outer, i, n, results) ==
  IF i >= n THEN Returned(results)
  ELSE LET inner == outer[SlotKey(i)]
           result == IF "result" \in DOMAIN inner THEN inner.result
                                                  ELSE J("null")
       IN ReadLoopUnchecked(lu, outer, i + 1, n, Append(results, result))

\* read(), lines 144-148: the loop over the inner envelopes, from slot i, with
\* the results gathered so far.
RECURSIVE ReadLoop(_, _, _, _, _)
ReadLoop(lu, outer, i, n, results) ==
  IF i >= n THEN Returned(results)
  ELSE LET inner == outer[SlotKey(i)]
           checked == Check(lu, inner)
       IN IF checked.status = "raise" THEN checked
          ELSE ReadLoop(lu, outer, i + 1, n, Append(results, inner.result))

\* The return value without the single-query case.
ReadReturnAlwaysList(n, results) == PyList(results)

\* read(), lines 152-155: one result alone, several as a list
ReadReturn(n, results) ==
  IF n = 1 THEN results[1] ELSE PyList(results)

\* Session.read, on the response resp of its one request
Read(queries, local, resp) ==
  LET n == Len(queries)
      url == ReadURL(queries, local)
      outer == CheckFetch(url, resp)
      looped == IF outer.status = "raise" THEN outer
                ELSE ReadLoop(lasturl, outer.value, 0, n, << >>)
  IN IF looped.status = "raise" THEN looped
     ELSE Returned(ReadReturn(n, looped.value))

\* --------------------------------------------------------------- results
CursorStart == S("true")          \* Python's True, as JSON prints it

\* The cursor values of a response: continuation tokens, and the falsy
\* values false and "".
CursorTokens == { S("c1"), S("c2") }
FalsyCursors == { S("false"), << >> }

\* Python truth of a cursor value: False, None and "" are false.
Truthy(cursor) == cursor \notin { S("false"), S("null"), << >> }

\* The result arrays of a page
PageItems == { << >>, << "a", "b" >>, << "c" >> }

PageEnvelopes ==
  { [code |-> OK, result |-> items, cursor |-> cursor] :
      items \in PageItems, cursor \in CursorTokens \cup FalsyCursors }

PageResponses ==
  { Response(200, "application/json", DumpJson(e)) : e \in PageEnvelopes }
    \cup FailureResponses

\* results(), lines 182-185: the request URL of an envelope
ResultsURL(envelope) ==
  LET params == UrlEncode([query |-> DumpJson(envelope)])
  IN S("http://") \o host \o READ \o S("?") \o params

\* The generator object results(query, **local) returns: none of its body
\* has run.
NewGenerator(query, local) ==
  [pc |-> "start", query |-> query, local |-> local,
   envelope |-> EmptyDict, cursor |-> << >>,
   response |-> EmptyDict, results |-> << >>, idx |-> 0,
   exc |-> PyError("none"),
   sent |-> << >>, recv |-> << >>, yielded |-> << >>]

\* The head of the loop with the cursor never swapped into the envelope.
LoopTopKeepsFirstCursor(g, cursor) ==
  IF Truthy(cursor)
  THEN [g EXCEPT !.cursor = cursor,
                 !.envelope = Update(g.envelope, [cursor |-> CursorStart]),
                 !.pc = "waiting",
                 !.sent = Append(@, ResultsURL(Update(g.envelope,
                                                       [cursor |-> CursorStart])))]
  ELSE [g EXCEPT !.cursor = cursor, !.pc = "done"]

\* The head of the loop that never ends.
LoopTopIgnoresCursor(g, cursor) ==
  LET envelope == Update(g.envelope, [cursor |-> cursor])
  IN [g EXCEPT !.cursor = cursor, !.envelope = envelope, !.pc = "waiting",
               !.sent = Append(@, ResultsURL(envelope))]

\* results(), lines 177-188: the head of the loop with the given cursor.
\* While the cursor is true it is put in the envelope and the request is
\* sent (pc "waiting"); otherwise the generator ends (pc "done").
LoopTop(g, cursor) ==
  IF Truthy(cursor)
  THEN LET envelope == Update(g.envelope, [cursor |-> cursor])
       IN [g EXCEPT !.cursor = cursor, !.envelope = envelope,
                    !.pc = "waiting",
                    !.sent = Append(@, ResultsURL(envelope))]
  ELSE [g EXCEPT !.cursor = cursor, !.pc = "done"]

\* results(), lines 165-174: the first next() runs the body from its start.
GenStart(g) ==
  LET opts == GetOpts(ReadKeys, g.local)
      envelope == Update([query |-> g.query], opts)
  IN LoopTop([g EXCEPT !.envelope = envelope], CursorStart)

\* results(), lines 192-196: a later next() resumes after the yield: the next
\* item of the page, or past the page to the new cursor and the loop's head.
GenAfterYield(g) ==
  IF g.idx < Len(g.results)
  THEN [g EXCEPT !.idx = @ + 1, !.yielded = Append(@, g.results[g.idx + 1])]
  ELSE LoopTop(g, g.response["cursor"])

\* next() on the generator
GenResume(g) == IF g.pc = "start" THEN GenStart(g) ELSE GenAfterYield(g)

\* The response handled with a failure taken for the end of the results.
GenOnResponseSwallows(g, resp) ==
  LET checked == CheckFetch(g.sent[Len(g.sent)], resp)
      h == [g EXCEPT !.recv = Append(@, resp)]
  IN IF checked.status = "raise" THEN [h EXCEPT !.pc = "done"]
     ELSE LET results == checked.value["result"]
              k == [h EXCEPT !.response = checked.value,
                             !.results = results, !.idx = 0]
          IN IF Len(results) > 0
             THEN [k EXCEPT !.pc = "yield", !.idx = 1,
                            !.yielded = Append(@, results[1])]
             ELSE LoopTop(k, checked.value["cursor"])

\* results(), lines 188-196: the response resp of the pending request arrives.
\* An error ends the generator; otherwise the first item of the page is
\* yielded, or an empty page leads on to the loop's head.
GenOnResponse(g, resp) ==
  LET checked == CheckFetch(g.sent[Len(g.sent)], resp)
      h == [g EXCEPT !.recv = Append(@, resp)]
  IN IF checked.status = "raise"
     THEN [h EXCEPT !.pc = "raised", !.exc = checked.exc]
     ELSE LET results == checked.value["result"]
              k == [h EXCEPT !.response = checked.value,
                             !.results = results, !.idx = 0]
          IN IF Len(results) > 0
             THEN [k EXCEPT !.pc = "yield", !.idx = 1,
                            !.yielded = Append(@, results[1])]
             ELSE LoopTop(k, checked.value["cursor"])

\* ---------------------------------------------------------------- search
SearchKeys ==
  { "domain", "type", "type_strict", "limit", "start", "escape", "mql_output" }

\* The query strings searched for
SearchStrings ==
  { << >>, S("foo"), S("foo") \o S("*"), S("*"),
    S("foo") \o S("*") \o S("*"), S("*") \o S("foo") }

\* Call-time options of search().  'query' names the positional parameter of
\* search(self, query, **options): a call that passes it by keyword as well
\* is rejected by the interpreter (TypeError) before the body runs.
SearchLocalOptions ==
  { [k \in ks |-> S("call")] : ks \in SUBSET { "limit", "prefix", "query" } }

SearchResponses ==
  { Response(200, "application/json",
             DumpJson([code |-> OK, result |-> J("hits")])) }
    \cup FailureResponses

\* search(), lines 207-216: the parameters of the request
SearchParams(query, local) ==
  LET opts == GetOpts(SearchKeys, local)
  IN IF EndsWith(query, "*")
     THEN Update(opts, [prefix |-> SubSeq(query, 1, Len(query) - 1)])
     ELSE Update(opts, [query |-> query])

\* search(), lines 218-219: the request URL
SearchURL(query, local) ==
  LET params == UrlEncode(SearchParams(query, local))
  IN S("http://") \o host \o SEARCH \o S("?") \o params

\* search(), lines 220-222: on the response resp of its request
Search(query, local, resp) ==
  LET envelope == Fetch(SearchURL(query, local), resp)
  IN IF envelope.status = "raise" THEN envelope
     ELSE LET checked == Check(lasturl, envelope.value)
          IN IF checked.status = "raise" THEN checked
             ELSE Returned(envelope.value["result"])

\* ----------------------------------------------------------------- trans
\* Session._transURL
TransURL(id, service, option_keys, local) ==
  LET url == S("http://") \o host \o service \o id
      opts == GetOpts(option_keys, local)
  IN IF Cardinality(DOMAIN opts) > 0
     THEN url \o S("?") \o UrlEncode(opts)
     ELSE url

\* Session.contentURL
ContentURL(id) == Returned(TransURL(id, DOWNLOAD, {}, EmptyDict))

BlurbKeys == { "maxlength", "break_paragraphs" }

\* Session.blurbURL
BlurbURL(id, local) == Returned(TransURL(id, BLURB, BlurbKeys, local))

\* The value of a global name in a method body: NameError when the module
\* binds no such name.
GlobalLookup(name) ==
  IF name \in DOMAIN ModuleGlobals
  THEN Returned(ModuleGlobals[name])
  ELSE Raised(PyError("NameError"))

ThumbKeys == { "maxwidth", "maxheight" }

\* Session.thumbnailURL: the service path is the global THUMBNAIL.
ThumbnailURL(id, local) ==
  LET service == GlobalLookup("THUMBNAIL")
  IN IF service.status = "raise" THEN service
     ELSE Returned(TransURL(id, service.value, ThumbKeys, local))

\* _trans with every response taken for a success.
TransIgnoresStatus(url, resp) ==
  Returned(<< resp.body, resp.headers["content-type"] >>)

\* Session._trans, on the response resp of its request for url: the
\* ServiceError carries the local url, the error of _parsejson self.lasturl.
Trans(url, resp) ==
  IF resp.status = 200
  THEN Returned(<< resp.body, resp.headers["content-type"] >>)
  ELSE LET errobj == ParseJson(lasturl, resp.body)
       IN IF errobj.status = "raise" THEN errobj
          ELSE Raised(ServiceError(url, errobj.value))

TransIds == { S("/en/u2"), S("/guid/9202a8c04000641f8000000000092a01") }

BlurbLocalOptions ==
  { [k \in ks |-> S("call")] : ks \in SUBSET { "maxlength", "foo" } }

ThumbLocalOptions ==
  { [k \in ks |-> S("call")] : ks \in SUBSET { "maxwidth" } }

\* What the trans service can answer: content, a failure envelope or an
\* unparseable body, under any of these statuses and content types.
TransBodies ==
  { S("...content...") } \cup { DumpJson(e) : e \in ErrorEnvelopes }
    \cup GarbageBodies

TransResponses ==
  { Response(status, ctype, body) :
      status \in { 200, 404, 500 },
      ctype \in { "image/jpeg", "text/plain" },
      body \in TransBodies }

\* ------------------------------------------------------------- behaviour
SessionNames == { "lang", "limit", "maxlength", "query" }

SessionDefaults ==
  { [k \in ks |-> S("session")] : ks \in SUBSET SessionNames }

Hosts == { S("sandbox-freebase.com") }

Clients == { "read", "results", "search", "trans" }

NoCall == [op |-> "none", state |-> "none"]
NoGen == [pc |-> "none"]

\* The session after Session(host, **options): no request made yet.
Init ==
  /\ client \in Clients
  /\ host \in Hosts
  /\ options \in SessionDefaults
  /\ lasturl = << >>
  /\ call = NoCall
  /\ gen = NoGen
  /\ gen2 = NoGen

\* read(*queries, **local) is called: it builds its URL and _http, having
\* stored the URL in lasturl, sends the request.
ReadCall ==
  /\ client = "read"
  /\ call.state # "waiting"
  /\ \E queries \in QuerySeqs, local \in ReadLocalOptions :
       LET url == ReadURL(queries, local)
       IN /\ lasturl' = Http(url)
          /\ call' = [op |-> "read", state |-> "waiting", queries |-> queries,
                      local |-> local, sent |-> << url >>]
  /\ UNCHANGED << client, host, options, gen, gen2 >>

\* The server answers resp and read() runs to its end.
ReadResponse ==
  /\ call.state = "waiting"
  /\ call.op = "read"
  /\ \E resp \in ReadResponses(Len(call.queries)) :
       call' = [op |-> "read", state |-> "done", queries |-> call.queries,
                local |-> call.local, sent |-> call.sent, resp |-> resp,
                out |-> Read(call.queries, call.local, resp)]
  /\ UNCHANGED << client, host, options, lasturl, gen, gen2 >>

ReadNext == ReadCall \/ ReadResponse

InitRead == Init /\ client = "read"
SpecRead == InitRead /\ [][ReadNext]_vars

\* results(query, **local) is called: a generator object is made.
ResultsCall ==
  /\ client = "results"
  /\ gen.pc = "none"
  /\ \E local \in ReadLocalOptions : gen' = NewGenerator(Query(1), local)
  /\ UNCHANGED << client, host, options, lasturl, call, gen2 >>

\* The consumer calls next(): the generator runs until it yields an item,
\* ends, or _http has stored the URL and sent a request.
GenNext ==
  /\ gen.pc \in { "start", "yield" }
  /\ LET g == GenResume(gen)
     IN /\ Len(g.sent) <= MaxPages
        /\ gen' = g
        /\ lasturl' = IF g.pc = "waiting" THEN Http(g.sent[Len(g.sent)])
                                           ELSE lasturl
  /\ UNCHANGED << client, host, options, call, gen2 >>

\* The server answers the generator's pending request.
GenResponse ==
  /\ gen.pc = "waiting"
  /\ \E resp \in PageResponses :
       LET g == GenOnResponse(gen, resp)
       IN /\ Len(g.sent) <= MaxPages
          /\ gen' = g
          /\ lasturl' = IF g.pc = "waiting" THEN Http(g.sent[Len(g.sent)])
                                           ELSE lasturl
  /\ UNCHANGED << client, host, options, call, gen2 >>

ResultsNext == ResultsCall \/ GenNext \/ GenResponse

InitResults == Init /\ client = "results"
SpecResults == InitResults /\ [][ResultsNext]_vars

\* search(query, **local) is called.  A keyword 'query' is a TypeError: the
\* call ends before its body runs.  Otherwise the request is sent.
SearchCall ==
  /\ client = "search"
  /\ call.state # "waiting"
  /\ \E query \in SearchStrings, local \in SearchLocalOptions :
       IF "query" \in DOMAIN local
       THEN /\ call' = [op |-> "search", state |-> "done", query |-> query,
                        local |-> local, sent |-> << >>,
                        out |-> Raised(PyError("TypeError"))]
            /\ UNCHANGED lasturl
       ELSE LET url == SearchURL(query, local)
            IN /\ lasturl' = Http(url)
               /\ call' = [op |-> "search", state |-> "waiting",
                           query |-> query, local |-> local,
                           sent |-> << url >>]
  /\ UNCHANGED << client, host, options, gen, gen2 >>

\* The server answers resp and search() runs to its end.
SearchResponse ==
  /\ call.state = "waiting"
  /\ call.op = "search"
  /\ \E resp \in SearchResponses :
       call' = [op |-> "search", state |-> "done", query |-> call.query,
                local |-> call.local, sent |-> call.sent, resp |-> resp,
                out |-> Search(call.query, call.local, resp)]
  /\ UNCHANGED << client, host, options, lasturl, gen, gen2 >>

SearchNext == SearchCall \/ SearchResponse

InitSearch == Init /\ client = "search"
SpecSearch == InitSearch /\ [][SearchNext]_vars

\* A call that only builds a URL, or fails to: contentURL(id),
\* blurbURL(id, **local), thumbnailURL(id, **local).
URLCall ==
  /\ client = "trans"
  /\ call.state # "waiting"
  /\ \E id \in TransIds :
       \/ call' = [op |-> "contentURL", state |-> "done", id |-> id,
                   local |-> EmptyDict, sent |-> << >>, out |-> ContentURL(id)]
       \/ \E local \in BlurbLocalOptions :
            call' = [op |-> "blurbURL", state |-> "done", id |-> id,
                     local |-> local, sent |-> << >>,
                     out |-> BlurbURL(id, local)]
       \/ \E local \in ThumbLocalOptions :
            call' = [op |-> "thumbnailURL", state |-> "done", id |-> id,
                     local |-> local, sent |-> << >>,
                     out |-> ThumbnailURL(id, local)]
  /\ UNCHANGED << client, host, options, lasturl, gen, gen2 >>

\* A call of op with the URL its URL method gave: the exception is passed on
\* if that method raised, otherwise _trans has _http store the URL and send
\* the request.
TransCall(op, id, local, built) ==
  IF built.status = "raise"
  THEN /\ call' = [op |-> op, state |-> "done", id |-> id, local |-> local,
                   sent |-> << >>, out |-> built]
       /\ UNCHANGED lasturl
  ELSE /\ lasturl' = Http(built.value)
       /\ call' = [op |-> op, state |-> "waiting", id |-> id, local |-> local,
                   sent |-> << built.value >>]

\* download(id) is called.
DownloadCall ==
  /\ client = "trans"
  /\ call.state # "waiting"
  /\ \E id \in TransIds : TransCall("download", id, EmptyDict, ContentURL(id))
  /\ UNCHANGED << client, host, options, gen, gen2 >>

\* blurb(id, **local) is called.
BlurbCall ==
  /\ client = "trans"
  /\ call.state # "waiting"
  /\ \E id \in TransIds, local \in BlurbLocalOptions :
       TransCall("blurb", id, local, BlurbURL(id, local))
  /\ UNCHANGED << client, host, options, gen, gen2 >>

\* thumbnail(id, **local) is called.
ThumbnailCall ==
  /\ client = "trans"
  /\ call.state # "waiting"
  /\ \E id \in TransIds, local \in ThumbLocalOptions :
       TransCall("thumbnail", id, local, ThumbnailURL(id, local))
  /\ UNCHANGED << client, host, options, gen, gen2 >>

\* The server answers resp and _trans runs to its end.
TransResponse ==
  /\ call.state = "waiting"
  /\ call.op \in { "download", "blurb", "thumbnail" }
  /\ \E resp \in TransResponses :
       call' = [op |-> call.op, state |-> "done", id |-> call.id,
                local |-> call.local, sent |-> call.sent, resp |-> resp,
                out |-> Trans(call.sent[1], resp)]
  /\ UNCHANGED << client, host, options, lasturl, gen, gen2 >>

TransNext ==
  URLCall \/ DownloadCall \/ BlurbCall \/ ThumbnailCall \/ TransResponse

InitTrans == Init /\ client = "trans"
SpecTrans == InitTrans /\ [][TransNext]_vars

\* Every run: a program that uses one family of operations of a session.
Next == ReadNext \/ ResultsNext \/ SearchNext \/ TransNext

Spec == Init /\ [][Next]_vars

\* ------------------------------------------------------ a shared session
\* Programs that use every family of operations of one session, with two
\* results() generators alive at once.  "interleaved": one thread, which
\* takes items from the generators in any order and calls read(), search()
\* and download() between their pages.  "concurrent": two threads, the first
\* making the calls and the second consuming the generators; the other thread
\* runs while one waits in urlopen (line 312) for its response.
Sharings == { "interleaved", "concurrent" }

Activities == { "call", "gen", "gen2" }

\* The thread that runs an activity
Thread(activity) ==
  IF client = "concurrent" /\ activity # "call" THEN 2 ELSE 1

\* The activities that wait in _http for the response to their request
InFlight ==
  { a \in Activities : \/ a = "call" /\ call.state = "waiting"
                       \/ a = "gen" /\ gen.pc = "waiting"
                       \/ a = "gen2" /\ gen2.pc = "waiting" }

\* The thread of the activity is not blocked in _http.
Free(activity) == \A a \in InFlight : Thread(a) # Thread(activity)

\* The session defaults of these programs
SharedOptions == { o \in SessionDefaults : DOMAIN o \subseteq { "lang" } }

\* A failure envelope and an unparseable body
SharedFailures ==
  { r \in FailureResponses :
      /\ r.body # << >>
      /\ IsJson(r.body) => r.body[1].doc.code = ERROR }

\* The pages the generators of these programs are answered with: one item and
\* a continuation token, one item and the cursor false, or a failure.
SharedPageResponses ==
  { Response(200, "application/json",
             DumpJson([code |-> OK, result |-> << "c" >>, cursor |-> cursor])) :
      cursor \in { S("c1"), S("false") } }
    \cup SharedFailures

\* The generator objects of the session
Generator(i) == IF i = 1 THEN gen ELSE gen2
GenName(i) == IF i = 1 THEN "gen" ELSE "gen2"

\* The i-th generator becomes g.
SetGenerator(i, g) ==
  /\ gen' = IF i = 1 THEN g ELSE gen
  /\ gen2' = IF i = 2 THEN g ELSE gen2

InitShared ==
  /\ client \in Sharings
  /\ host \in Hosts
  /\ options \in SharedOptions
  /\ lasturl = << >>
  /\ call = NoCall
  /\ gen = NoGen
  /\ gen2 = NoGen

\* read(query) is called by a thread that is not waiting.
SharedReadCall ==
  /\ client \in Sharings
  /\ Free("call")
  /\ LET queries == << Query(1) >>
         url == ReadURL(queries, EmptyDict)
     IN /\ lasturl' = Http(url)
        /\ call' = [op |-> "read", state |-> "waiting", queries |-> queries,
                    local |-> EmptyDict, sent |-> << url >>]
  /\ UNCHANGED << client, host, options, gen, gen2 >>

\* search(query) is called by a thread that is not waiting.
SharedSearchCall ==
  /\ client \in Sharings
  /\ Free("call")
  /\ LET url == SearchURL(S("foo"), EmptyDict)
     IN /\ lasturl' = Http(url)
        /\ call' = [op |-> "search", state |-> "waiting", query |-> S("foo"),
                    local |-> EmptyDict, sent |-> << url >>]
  /\ UNCHANGED << client, host, options, gen, gen2 >>

\* download(id) is called by a thread that is not waiting.
SharedDownloadCall ==
  /\ client \in Sharings
  /\ Free("call")
  /\ TransCall("download", S("/en/u2"), EmptyDict, ContentURL(S("/en/u2")))
  /\ UNCHANGED << client, host, options, gen, gen2 >>

\* results(query) is called: the i-th generator object is made.
SharedResultsCall ==
  /\ client \in Sharings
  /\ \E i \in 1..2 :
       /\ Generator(i).pc = "none"
       /\ Free(GenName(i))
       /\ SetGenerator(i, NewGenerator(Query(i), EmptyDict))
  /\ UNCHANGED << client, host, options, lasturl, call >>

\* A thread that is not waiting calls next() on the i-th generator.
SharedGenNext ==
  /\ client \in Sharings
  /\ \E i \in 1..2 :
       /\ Generator(i).pc \in { "start", "yield" }
       /\ Free(GenName(i))
       /\ LET g == GenResume(Generator(i))
          IN /\ Len(g.sent) <= MaxPages
             /\ SetGenerator(i, g)
             /\ lasturl' = IF g.pc = "waiting" THEN Http(g.sent[Len(g.sent)])
                                              ELSE lasturl
  /\ UNCHANGED << client, host, options, call >>

\* The server answers the pending request of the i-th generator.
SharedGenResponse ==
  /\ client \in Sharings
  /\ \E i \in 1..2 :
       /\ Generator(i).pc = "waiting"
       /\ \E resp \in SharedPageResponses :
            LET g == GenOnResponse(Generator(i), resp)
            IN /\ Len(g.sent) <= MaxPages
               /\ SetGenerator(i, g)
               /\ lasturl' = IF g.pc = "waiting"
                             THEN Http(g.sent[Len(g.sent)])
                             ELSE lasturl
  /\ UNCHANGED << client, host, options, call >>

SharedNext ==
  \/ SharedReadCall \/ SharedSearchCall \/ SharedDownloadCall
  \/ ReadResponse \/ SearchResponse \/ TransResponse
  \/ SharedResultsCall \/ SharedGenNext \/ SharedGenResponse

SpecShared == InitShared /\ [][SharedNext]_vars

\* ---------------------------------------------------------- read: claims
ReadDone == call.op = "read" /\ call.state = "done"

\* The outer envelope the server sent has the success code.
ReadOuterOk ==
  /\ ReadDone
  /\ IsJson(call.resp.body)
  /\ call.resp.body[1].doc.code = OK

ReadSlots == { SlotKey(i) : i \in 0..(Len(call.queries) - 1) }

ReadFailedSlots ==
  { k \in ReadSlots : call.resp.body[1].doc[k].code # OK }

\* C1: a read() of N >= 1 queries whose outer envelope has the success code
\* and at least one of whose inner envelopes has another code raises
\* ServiceError and returns nothing, for no query of the batch.
C1_InnerFailureRaises ==
  (ReadOuterOk /\ Len(call.queries) >= 1 /\ ReadFailedSlots # {})
    => /\ call.out.status = "raise"
       /\ call.out.exc.type = "ServiceError"
       /\ "value" \notin DOMAIN call.out

\* A read() of two queries whose slot q0 succeeded and whose slot q1 failed.
C1_Witness ==
  /\ ReadOuterOk
  /\ Len(call.queries) = 2
  /\ ReadFailedSlots = { "q1" }
  /\ call.out.status = "raise"

\* C3: a read() of N queries whose outer and inner envelopes all have the
\* success code returns, for N = 1, the result of slot q0 itself and, for
\* N > 1, the list of length N whose element i is the result of slot qi.
C3_ResultsInInputOrder ==
  (ReadOuterOk /\ ReadFailedSlots = {})
    => LET n == Len(call.queries)
           doc == call.resp.body[1].doc
       IN /\ call.out.status = "return"
          /\ n = 1 => call.out.value = doc["q0"].result
          /\ n > 1 => call.out.value
                         = PyList([i \in 1..n |-> doc[SlotKey(i - 1)].result])

\* A read() of two queries answered with different results, q0's being r2.
C3_Witness ==
  /\ ReadOuterOk
  /\ ReadFailedSlots = {}
  /\ Len(call.queries) = 2
  /\ call.resp.body[1].doc["q0"].result = J("r2")
  /\ call.resp.body[1].doc["q1"].result = J("r1")
  /\ call.out.status = "return"

\* ------------------------------------------------------- results: claims
\* The envelope the server finds in a request URL of results().
EnvelopeOfURL(url) == url[Len(url)].quoted

\* The k-th response the generator received is a success envelope.
PageOk(k) ==
  /\ IsJson(gen.recv[k].body)
  /\ gen.recv[k].body[1].doc.code = OK

\* ... is an envelope with another code.
PageFailed(k) ==
  /\ IsJson(gen.recv[k].body)
  /\ gen.recv[k].body[1].doc.code # OK

PageCursor(k) == gen.recv[k].body[1].doc.cursor

\* The result items of the first k pages received, in order.
RECURSIVE ItemsOf(_)
ItemsOf(k) ==
  IF k = 0 THEN << >>
  ELSE ItemsOf(k - 1) \o (IF PageOk(k) THEN gen.recv[k].body[1].doc.result
                                       ELSE << >>)

IsPrefix(s, t) == Len(s) <= Len(t) /\ SubSeq(t, 1, Len(s)) = s

\* C2: while every page served is a success, the consumer has been handed a
\* prefix of the concatenation of the pages' items, in order; a page is
\* requested only after pages with a true cursor; after the first page with
\* a false cursor no request is sent, and once its items are handed over the
\* next call of next() ends the generator, which has then yielded exactly
\* the concatenation.
C2_PagesInOrderUntilFalsyCursor ==
  (gen.pc # "none" /\ \A k \in 1..Len(gen.recv) : PageOk(k))
    => LET n == Len(gen.recv)
           all == ItemsOf(n)
       IN /\ IsPrefix(gen.yielded, all)
          /\ \A k \in 1..(n - 1) : Truthy(PageCursor(k))
          /\ (n >= 1 /\ ~Truthy(PageCursor(n)))
               => /\ Len(gen.sent) = n
                  /\ gen.pc \in { "yield", "done" }
                  /\ (gen.pc = "yield" /\ gen.yielded = all)
                       => GenResume(gen).pc = "done"
          /\ gen.pc = "done"
               => /\ n >= 1
                  /\ ~Truthy(PageCursor(n))
                  /\ gen.yielded = all

\* Pages [a, b] and [c], the second with a false cursor, drained: a, b, c and
\* then the end.
C2_Witness ==
  /\ gen.pc = "done"
  /\ Len(gen.recv) = 2
  /\ PageOk(1) /\ PageOk(2)
  /\ gen.recv[1].body[1].doc.result = << "a", "b" >>
  /\ gen.recv[2].body[1].doc.result = << "c" >>
  /\ gen.yielded = << "a", "b", "c" >>

\* C9: when the k-th page fetched is an envelope whose code is not the
\* success code, the generator has raised ServiceError with that envelope,
\* the consumer has been handed exactly the items of pages 1..k-1, and the
\* k-th request is the generator's last.
C9_FailedPageStops ==
  gen.pc # "none"
    => \A k \in 1..Len(gen.recv) :
         PageFailed(k)
           => /\ k = Len(gen.recv)
              /\ Len(gen.sent) = k
              /\ gen.pc = "raised"
              /\ gen.exc.type = "ServiceError"
              /\ gen.exc.details = gen.recv[k].body[1].doc
              /\ gen.yielded = ItemsOf(k - 1)

\* A first page [a, b] handed over, then a second fetch that failed.
C9_Witness ==
  /\ gen.pc = "raised"
  /\ Len(gen.recv) = 2
  /\ PageOk(1)
  /\ PageFailed(2)
  /\ gen.yielded = << "a", "b" >>

\* C10: the first request's envelope has cursor = true; the k-th request
\* (k > 1) is sent when all items of pages 1..k-1 have been handed to the
\* consumer, and its envelope is the first request's with the cursor field
\* set to the cursor of the (k-1)-th response.
C10_EnvelopeReusedWithLatestCursor ==
  gen.pc # "none"
    => \A k \in 1..Len(gen.sent) :
         LET first == EnvelopeOfURL(gen.sent[1])
         IN /\ first["cursor"] = CursorStart
            /\ first["query"] = gen.query
            /\ k > 1
                 => /\ EnvelopeOfURL(gen.sent[k])
                        = Update(first, [cursor |-> PageCursor(k - 1)])
                    /\ Len(gen.yielded) >= Len(ItemsOf(k - 1))

\* A generator given a call-time cursor option whose second request carries
\* the token c2 of the first response.
C10_Witness ==
  /\ gen.pc # "none"
  /\ Len(gen.sent) = 2
  /\ "cursor" \in DOMAIN gen.local
  /\ gen.recv[1].body[1].doc.result = << "a", "b" >>
  /\ EnvelopeOfURL(gen.sent[2])["cursor"] = S("c2")

\* ------------------------------------------------- URLs, as the server reads them
\* The index of the first token of text that is the character ch, or
\* Len(text) + 1.
FirstIndex(text, ch) ==
  IF \E i \in 1..Len(text) : text[i] = [c |-> ch]
  THEN CHOOSE i \in 1..Len(text) :
         /\ text[i] = [c |-> ch]
         /\ \A j \in 1..(i - 1) : text[j] # [c |-> ch]
  ELSE Len(text) + 1

\* The part of a URL before its first '?', and the part after it.
URLBase(url) == SubSeq(url, 1, FirstIndex(url, "?") - 1)
URLQuery(url) == SubSeq(url, FirstIndex(url, "?") + 1, Len(url))

UnquoteTok(t) ==
  IF "quoted" \in DOMAIN t THEN [doc |-> t.quoted]
  ELSE IF t.c = "%3F" THEN [c |-> "?"]
  ELSE IF t.c = "%2A" THEN [c |-> "*"]
  ELSE IF t.c = "%26" THEN [c |-> "&"]
  ELSE IF t.c = "%3D" THEN [c |-> "="]
  ELSE t

Unquote(text) == [i \in 1..Len(text) |-> UnquoteTok(text[i])]

\* The parameters of a query string k=v&k=v..., decoded.
RECURSIVE ParseQS(_)
ParseQS(text) ==
  IF text = << >> THEN EmptyDict
  ELSE LET n == FirstIndex(text, "&")
           pair == SubSeq(text, 1, n - 1)
           rest == SubSeq(text, n + 1, Len(text))
       IN Update([k \in { pair[1].c } |-> Unquote(SubSeq(pair, 3, Len(pair)))],
                 ParseQS(rest))

URLParams(url) == ParseQS(URLQuery(url))

\* -------------------------------------------------------- search: claims
SearchSent == call.op = "search" /\ Len(call.sent) = 1

\* C6: the request of a search() whose query string ends with '*' has a
\* parameter 'prefix' equal to the string without its last character and no
\* parameter 'query'; the request of any other search() has a parameter
\* 'query' equal to the string.
C6_PrefixSearch ==
  SearchSent
    => LET params == URLParams(call.sent[1])
           query == call.query
       IN IF Len(query) > 0 /\ query[Len(query)] = [c |-> "*"]
          THEN /\ "prefix" \in DOMAIN params
               /\ params["prefix"] = SubSeq(query, 1, Len(query) - 1)
               /\ "query" \notin DOMAIN params
          ELSE /\ "query" \in DOMAIN params
               /\ params["query"] = query

\* A search for "foo**" on a session whose defaults hold a 'query', called
\* with a 'prefix' option of its own: the request asks for the prefix "foo*".
C6_Witness ==
  /\ SearchSent
  /\ call.query = S("foo") \o S("*") \o S("*")
  /\ "query" \in DOMAIN options
  /\ "prefix" \in DOMAIN call.local
  /\ URLParams(call.sent[1])["prefix"] = S("foo") \o S("*")

\* --------------------------------------------------------- trans: claims
TransDone == call.op \in { "download", "blurb" } /\ call.state = "done"

C7_ThumbnailFetches ==
  call.op = "thumbnail"
    => /\ call.sent = << TransURL(call.id, THUMB, ThumbKeys, call.local) >>
       /\ (call.state = "done" /\ call.resp.status = 200)
            => call.out = Returned(<< call.resp.body,
                                      call.resp.headers["content-type"] >>)

\* The allow-list of the URL method that built a call's URL.
AllowList == IF call.op \in { "blurbURL", "blurb" } THEN BlurbKeys ELSE {}

\* A call that built a URL with contentURL() or blurbURL().
URLBuilt ==
  \/ call.op \in { "contentURL", "blurbURL" }
  \/ call.op \in { "download", "blurb" }

BuiltURL ==
  IF call.op \in { "contentURL", "blurbURL" } THEN call.out.value
  ELSE call.sent[1]

\* C8 (as claimed): every parameter name of a URL built by contentURL() or
\* blurbURL() is on the operation's allow-list, and a call-time value of an
\* allow-listed name overrides the session default.
C8_OnlyAllowListedNames ==
  URLBuilt
    => LET params == URLParams(BuiltURL)
       IN /\ DOMAIN params \subseteq AllowList
          /\ \A k \in AllowList \cap DOMAIN call.local :
               params[k] = call.local[k]

\* C8 (amended): every parameter of such a URL is a call-time option, with
\* its call-time value, or a session default on the allow-list, with the
\* session's value; every call-time option and every allow-listed session
\* default is a parameter.  A session default outside the allow-list is never
\* one.
C8_AllowListedDefaultsAndCallOptions ==
  URLBuilt
    => LET params == URLParams(BuiltURL)
           defaults == AllowList \cap DOMAIN options
       IN /\ DOMAIN params = defaults \cup DOMAIN call.local
          /\ \A k \in DOMAIN call.local : params[k] = call.local[k]
          /\ \A k \in defaults \ DOMAIN call.local : params[k] = options[k]

\* A blurbURL() given maxlength at call time on a session whose defaults hold
\* maxlength and names outside the allow-list.
C8_Witness ==
  /\ call.op = "blurbURL"
  /\ "maxlength" \in DOMAIN call.local
  /\ { "maxlength", "lang", "query" } \subseteq DOMAIN options
  /\ URLParams(BuiltURL) = [maxlength |-> S("call")]

\* ---------------------------------------------------- exceptions: claims
IsServiceError(e) == e.type \in { "ServiceError", "InternalServiceError" }

\* The first message of the failure a response carries: of the fake envelope
\* for a body that is no JSON, of the envelope itself if its code is not the
\* success code, else (read) of the first inner envelope that failed.
FirstMessage(resp) ==
  IF ~IsJson(resp.body)
  THEN [code |-> S("Unparseable response"), message |-> resp.body]
  ELSE LET doc == resp.body[1].doc
       IN IF doc.code # OK THEN doc.messages[1]
          ELSE LET i == CHOOSE i \in 0..MaxQueries :
                          /\ SlotKey(i) \in ReadFailedSlots
                          /\ \A j \in 0..(i - 1) :
                               SlotKey(j) \notin ReadFailedSlots
               IN doc[SlotKey(i)].messages[1]

\* The string of the error e raised on the response resp to the request url:
\* the url before its first '?', the code and the text of the first message,
\* and no '?' nor any piece of the url's query string.
StringWithoutParams(e, url, resp) ==
  LET str == Str(e)
      msg == FirstMessage(resp)
      query == URLQuery(url)
  IN /\ str = URLBase(url) \o S(": ") \o msg.code \o S(": ") \o msg.message
     /\ \A i \in 1..Len(str) :
          /\ str[i] # [c |-> "?"]
          /\ \A j \in 1..Len(query) : str[i] # query[j]

CallRaisedServiceError ==
  /\ call.state = "done"
  /\ call.out.status = "raise"
  /\ IsServiceError(call.out.exc)

\* C5: the string of every ServiceError or InternalServiceError an operation
\* raised is '<url before the first ?>: <code of the first message>: <text of
\* the first message>', with nothing of the URL's parameters in it.
C5_ErrorStringHasNoParams ==
  /\ CallRaisedServiceError
       => StringWithoutParams(call.out.exc, call.sent[1], call.resp)
  /\ gen.pc = "raised"
       => StringWithoutParams(gen.exc, gen.sent[Len(gen.sent)],
                              gen.recv[Len(gen.recv)])

\* A read() of two queries with call-time options whose slot q1 failed: the
\* error prints as the read service's URL and the inner envelope's message.
C5_Witness ==
  /\ CallRaisedServiceError
  /\ call.op = "read"
  /\ ReadOuterOk
  /\ ReadFailedSlots = { "q1" }
  /\ DOMAIN call.local = { "lang", "cursor" }
  /\ Str(call.out.exc)
       = S("http://") \o host \o READ \o S(": ")
           \o S("/api/status/error/mql/parse") \o S(": ") \o S("bad query")


\* ------------------------------------------------- shared session: claims
ErrorTypes == { "ServiceError", "InternalServiceError" }

\* The errors of a generator: the activity, the url the error carries, and
\* the URL of the request whose response made the generator raise it.
GenErrors(name, g) ==
  IF g.pc = "raised"
  THEN { << name, g.exc.url, g.sent[Len(g.sent)] >> }
  ELSE {}

\* The same of the latest call.
CallErrors ==
  IF /\ call.state = "done"
     /\ call.out.status = "raise"
     /\ call.out.exc.type \in ErrorTypes
  THEN { << "call", call.out.exc.url, call.sent[1] >> }
  ELSE {}

ErrorsRaised == CallErrors \cup GenErrors("gen", gen) \cup GenErrors("gen2", gen2)

\* The URLs of the requests an activity has sent
SentBy(activity) ==
  LET sent == IF activity = "call"
              THEN (IF call.state = "none" THEN << >> ELSE call.sent)
              ELSE LET g == IF activity = "gen" THEN gen ELSE gen2
                   IN IF g.pc = "none" THEN << >> ELSE g.sent
  IN { sent[k] : k \in 1..Len(sent) }

\* The error carries the URL of a request of the other thread.
CarriesOtherURL(e) ==
  /\ e[2] # e[3]
  /\ \E a \in Activities : Thread(a) # Thread(e[1]) /\ e[2] \in SentBy(a)

\* The errors built in this step: those of the activities whose response
\* arrives.
ErrorsBuilt == { e \in ErrorsRaised' : e[1] \in InFlight }

\* C11: at the moment a ServiceError or InternalServiceError is built, while
\* one thread uses the session, whatever the order in which it takes items
\* from the two generators and makes its calls between their pages, the error
\* carries the URL of the request whose response caused it; with two threads
\* it carries that URL or the URL of a request of the other thread.
C11_ErrorCarriesItsRequestURL ==
  [][\A e \in ErrorsBuilt :
       /\ client = "interleaved" => e[2] = e[3]
       /\ client = "concurrent" => e[2] = e[3] \/ CarriesOtherURL(e)]_vars

\* Two threads: an error carries the URL of the other thread's request.
C11_Witness ==
  /\ client = "concurrent"
  /\ \E e \in ErrorsRaised : CarriesOtherURL(e)

\* One thread: the first generator failed on its second page while the second
\* generator was between its pages and a call had been made and had failed;
\* both errors carry their own request's URL.
C11_InterleavedCase ==
  /\ client = "interleaved"
  /\ gen.pc = "raised" /\ Len(gen.sent) = 2
  /\ gen2.pc = "yield"
  /\ CallErrors # {}
  /\ \A e \in ErrorsRaised : e[2] = e[3]

====
